---------------------------- MODULE Spec2Model ----------------------------
(* Briquette dashboard (fresh_app.py, app2.py): timestamp normalizer,      *)
(* segmenter, nearest-point resolver, identifier registry, annotation log  *)
(* and sink, as one Streamlit script pass per user interaction.            *)
(*                                                                         *)
(* Optional values: None is the empty tuple, a defined value v is <<v>>.   *)
(* Text is a sequence of one-character strings.                            *)
EXTENDS Integers, Sequences, FiniteSets, TLC

VARIABLES
    \* ---- to_sec harness (SpecToSec)
    ts,             \* the string handed to to_sec
    sec,            \* fresh_app.py to_sec(ts): None or <<seconds>>
    sec2,           \* app2.py to_sec(ts)
    tpc,            \* "in" before the call, "out" after it
    \* ---- widget state of fresh_app.py
    up_file,        \* uploaded file: the timestamp column, one text per row
    group_on,       \* checkbox "Group briquettes by fixed rows"
    rows_per_briq,  \* number_input "Rows per briquette"
    t_rng,          \* slider value <<lo, hi>>
    y_cols,         \* multiselect "Signals to plot"
    clicks,         \* plotly_events value: <<>> or <<[x, y, curveNumber]>>
    \* ---- st.session_state
    id_map,         \* briq_idx -> BriquetteID
    id_seq,         \* identifier counter
    annots,         \* annotation log, in creation order
    \* ---- what the last script pass produced
    df_raw,         \* the data frame at the end of the pass
    out,            \* status, resolved idx, effects in order, downloads
    \* ---- history
    masks,          \* per annotation, the row labels its mask selected
                    \* (line 137)
    resolved        \* every briq_idx a click has resolved to

vars == <<ts, sec, sec2, tpc, up_file, group_on, rows_per_briq, t_rng, y_cols,
          clicks, id_map, id_seq, annots, df_raw, out, masks, resolved>>

toSecVars == <<ts, sec, sec2, tpc>>
appVars == <<up_file, group_on, rows_per_briq, t_rng, y_cols, clicks,
             id_map, id_seq, annots, df_raw, out, masks, resolved>>

-----------------------------------------------------------------------------
(* Bounds *)
MaxLen == 7         \* longest string handed to to_sec in SpecToSec
MaxRows == 3        \* most rows of an uploaded file
MaxX == 3           \* largest clicked x
MaxAnnots == 2      \* most saved annotations in a session

None == <<>>
Some(v) == <<v>>

Min(a, b) == IF a <= b THEN a ELSE b
Abs(a) == IF a < 0 THEN -a ELSE a

-----------------------------------------------------------------------------
(* Timestamp normalizer *)

Digit == [c \in {"0", "1", "2", "3", "4", "5", "6", "7", "8", "9"} |->
            CASE c = "0" -> 0 [] c = "1" -> 1 [] c = "2" -> 2 [] c = "3" -> 3
              [] c = "4" -> 4 [] c = "5" -> 5 [] c = "6" -> 6 [] c = "7" -> 7
              [] c = "8" -> 8 [] c = "9" -> 9]

\* str.split(":"): the pieces between the colons, empty pieces kept.
RECURSIVE Split(_)
Split(s) ==
    IF \A i \in 1..Len(s) : s[i] # ":"
    THEN <<s>>
    ELSE LET i == CHOOSE j \in 1..Len(s) :
                      s[j] = ":" /\ \A k \in 1..(j - 1) : s[k] # ":"
         IN <<SubSeq(s, 1, i - 1)>> \o Split(SubSeq(s, i + 1, Len(s)))

\* float(p) raises ValueError on the empty string and on a non-digit.
FloatRaises(p) == p = <<>> \/ \E i \in 1..Len(p) : p[i] \notin DOMAIN Digit

RECURSIVE Float(_)
Float(p) == IF p = <<>> THEN 0
            ELSE 10 * Float(SubSeq(p, 1, Len(p) - 1)) + Digit[p[Len(p)]]

\* fresh_app.py: two parts mm:ss, three parts hh:mm:ss, else falls off the
\* end of the function (None); any exception gives None.
to_sec(s) ==
    LET raw == Split(s) IN
    IF \E i \in 1..Len(raw) : FloatRaises(raw[i]) THEN None
    ELSE LET parts == [i \in 1..Len(raw) |-> Float(raw[i])] IN
         IF Len(parts) = 2 THEN Some(parts[1] * 60 + parts[2])
         ELSE IF Len(parts) = 3
              THEN Some(parts[1] * 3600 + parts[2] * 60 + parts[3])
              ELSE None

\* app2.py: conditional expression; p[1], p[2] raise IndexError when missing.
to_sec_app2(s) ==
    LET raw == Split(s) IN
    IF \E i \in 1..Len(raw) : FloatRaises(raw[i]) THEN None
    ELSE LET p == [i \in 1..Len(raw) |-> Float(raw[i])] IN
         IF Len(p) = 2 THEN Some(p[1] * 60 + p[2])
         ELSE IF Len(p) < 3 THEN None
              ELSE Some(p[1] * 3600 + p[2] * 60 + p[3])

Alphabet == {"1", "2", ":", "a"}

RECURSIVE Strings(_)
Strings(n) ==
    IF n = 0 THEN {<<>>}
    ELSE LET shorter == Strings(n - 1) IN
         shorter \cup {Append(s, c) : s \in {t \in shorter : Len(t) = n - 1},
                                       c \in Alphabet}

-----------------------------------------------------------------------------
(* Segmenter: lines 40-53 of fresh_app.py *)

\* sort_values("t_sec"): ascending, undefined values last (na_position
\* defaults to "last"); rows that compare equal keep their file order.
Before(a, b) == a # None /\ (b = None \/ a[1] < b[1])

RECURSIVE Insert(_, _)
Insert(sorted, r) ==
    IF sorted = <<>> THEN <<r>>
    ELSE IF Before(r.t_sec, sorted[Len(sorted)].t_sec)
         THEN Append(Insert(SubSeq(sorted, 1, Len(sorted) - 1), r),
                     sorted[Len(sorted)])
         ELSE Append(sorted, r)

RECURSIVE SortRows(_)
SortRows(rows) ==
    IF rows = <<>> THEN <<>>
    ELSE Insert(SortRows(SubSeq(rows, 1, Len(rows) - 1)), rows[Len(rows)])

\* df_raw["t_sec"] = timestamp.apply(to_sec); sort; reset_index(drop=True).
\* src is the row's line in the file, kept to tell rows apart.
LoadRows(file) ==
    SortRows([i \in 1..Len(file) |->
                [src |-> i, timestamp |-> file[i], t_sec |-> to_sec(file[i])]])

\* Mutant: positions counted from one.
BriqIdxFromOne(label, on, g) == IF on THEN (label + 1) \div g ELSE 0

\* df_raw.index // rows_per_briq; the index label of row i (1-based) is i-1.
BriqIdx(label, on, g) == IF on THEN label \div g ELSE 0

\* The frame after line 53. BriquetteID and Note are absent (None) until
\* the bulk assignment of lines 137-140.
Segmenter(file, on, g) ==
    LET rows == LoadRows(file) IN
    [i \in 1..Len(rows) |->
        [src |-> rows[i].src, timestamp |-> rows[i].timestamp,
         t_sec |-> rows[i].t_sec, briq_idx |-> BriqIdx(i - 1, on, g),
         BriquetteID |-> None, Note |-> None]]

-----------------------------------------------------------------------------
(* Range filter and nearest-point resolver: lines 56-60, 117 *)

\* t_min, t_max: min() and max() skip undefined values.
Times(df) == {df[i].t_sec[1] : i \in {j \in 1..Len(df) : df[j].t_sec # None}}
TMin(df) == CHOOSE t \in Times(df) : \A u \in Times(df) : t <= u
TMax(df) == CHOOSE t \in Times(df) : \A u \in Times(df) : t >= u

InRange(row, rng) ==
    row.t_sec # None /\ row.t_sec[1] >= rng[1] /\ row.t_sec[1] <= rng[2]

\* view = df_raw[mask]: the index labels of the rows kept, in frame order.
\* A comparison with an undefined t_sec is False, so such rows are dropped.
View(df, rng) ==
    SelectSeq([i \in 1..Len(df) |-> i - 1],
              LAMBDA l : InRange(df[l + 1], rng))

\* (view["t_sec"] - x_val).abs().idxmin(): the index LABEL of the first row
\* of the view with the least distance.
IdxMin(df, view, x) ==
    LET d(l) == Abs(df[l + 1].t_sec[1] - x)
        least == {l \in {view[i] : i \in 1..Len(view)} :
                    \A i \in 1..Len(view) : d(l) <= d(view[i])}
    IN CHOOSE l \in least : \A m \in least : l <= m

\* view.iloc[n]: n is a POSITION in the view; past the end it raises
\* IndexError (None here). The result is the row's label in df_raw.
ILoc(view, n) == IF n < Len(view) THEN Some(view[n + 1]) ELSE None

\* Line 117: the label idxmin returns is handed to iloc as a position.
ResolveClick(df, rng, x) ==
    LET view == View(df, rng)
        at == ILoc(view, IdxMin(df, view, x))
    IN IF at = None THEN None ELSE Some(df[at[1] + 1].briq_idx)

-----------------------------------------------------------------------------
(* Identifier registry: lines 10, 73-84, 119-122 *)

ID_PREFIX == <<"D", "W", "C">>
ID_PAD == 3

DigitChar == <<"0", "1", "2", "3", "4", "5", "6", "7", "8", "9">>

RECURSIVE Digits(_)
Digits(n) == IF n < 10 THEN <<DigitChar[n + 1]>>
             ELSE Append(Digits(n \div 10), DigitChar[(n % 10) + 1])

\* f"{n:0{ID_PAD}}": zeros on the left up to the width, never truncated.
RECURSIVE ZeroPad(_, _)
ZeroPad(t, w) == IF Len(t) >= w THEN t ELSE ZeroPad(<<"0">> \o t, w)

\* Mutant: the counter is not bumped.
next_briq_id_stuck(seq, day) ==
    [id_seq |-> seq,
     id |-> ID_PREFIX \o day \o ZeroPad(Digits(seq + 1), ID_PAD)]

\* next_briq_id(): bump the counter, then format prefix + date + counter.
next_briq_id(seq, day) ==
    [id_seq |-> seq + 1,
     id |-> ID_PREFIX \o day \o ZeroPad(Digits(seq + 1), ID_PAD)]

\* Mutant: no membership test, every click makes a new identifier.
GetOrCreateFresh(map, seq, idx, day) ==
    [id_map |-> (idx :> (ID_PREFIX \o day \o ZeroPad(Digits(seq + 1), ID_PAD)))
                @@ map,
     id_seq |-> seq + 1,
     briq_id |-> ID_PREFIX \o day \o ZeroPad(Digits(seq + 1), ID_PAD),
     created |-> TRUE]

\* Mutant: the identifier is made only once the segment has an entry, the
\* first click registers nothing.
GetOrCreateLate(map, seq, idx, day) ==
    [id_map |-> map, id_seq |-> seq + 1,
     briq_id |-> ID_PREFIX \o day \o ZeroPad(Digits(seq + 1), ID_PAD),
     created |-> TRUE]

\* Lines 120-122: get or create the BriquetteID of a briq_idx.
GetOrCreate(map, seq, idx, day) ==
    IF idx \in DOMAIN map
    THEN [id_map |-> map, id_seq |-> seq, briq_id |-> map[idx],
          created |-> FALSE]
    ELSE LET n == next_briq_id(seq, day) IN
         [id_map |-> (idx :> n.id) @@ map, id_seq |-> n.id_seq,
          briq_id |-> n.id, created |-> TRUE]

-----------------------------------------------------------------------------
(* Annotation log, bulk propagation, sink, downloads: lines 129-166 *)

\* Mutant: the new record is put first.
PrependAnnot(log, new) == <<new>> \o log

\* pd.concat([annots, DataFrame([new])], ignore_index=True)
AppendAnnot(log, new) == Append(log, new)

\* mask = df_raw.briq_idx == idx: the labels the bulk assignment touches.
Mask(df, idx) == {i - 1 : i \in {j \in 1..Len(df) : df[j].briq_idx = idx}}

\* df_raw.loc[mask, "BriquetteID"] = briq_id; Note only when non-empty.
BulkSet(df, idx, briq_id, note) ==
    [i \in 1..Len(df) |->
        IF df[i].briq_idx = idx
        THEN [df[i] EXCEPT !.BriquetteID = Some(briq_id),
                           !.Note = IF note # <<>> THEN Some(note) ELSE @]
        ELSE df[i]]

\* Mutant: no try/except around the send.
SinkUncaught(eng, ok) ==
    IF ~eng THEN [effects |-> <<>>, raised |-> FALSE]
    ELSE IF ok THEN [effects |-> <<"to_sql", "toast">>, raised |-> FALSE]
         ELSE [effects |-> <<"to_sql">>, raised |-> TRUE]

\* Lines 143-148: no engine, no send; a send that raises is caught and
\* reported with st.error. raised tells whether an exception leaves the block.
Sink(eng, ok) ==
    IF ~eng THEN [effects |-> <<>>, raised |-> FALSE]
    ELSE IF ok THEN [effects |-> <<"to_sql", "toast">>, raised |-> FALSE]
         ELSE [effects |-> <<"to_sql", "error">>, raised |-> FALSE]

\* to_csv(index=False): a header line and one line per row; an absent
\* value is an empty cell.
Cell(opt) == IF opt = None THEN <<>> ELSE opt[1]

AnnotsCsv(log) ==
    [header |-> <<"BriquetteID", "briq_idx", "Signal", "t_sec", "Value",
                  "Note">>,
     lines |-> [i \in 1..Len(log) |->
                  <<log[i].BriquetteID, log[i].briq_idx, log[i].Signal,
                    log[i].t_sec, log[i].Value, log[i].Note>>]]

\* hasId / hasNote: whether lines 138 / 140 created the column in this pass.
DataCsv(df, hasId, hasNote) ==
    [header |-> <<"timestamp", "t_sec", "briq_idx">>
                \o (IF hasId THEN <<"BriquetteID">> ELSE <<>>)
                \o (IF hasNote THEN <<"Note">> ELSE <<>>),
     lines |-> [i \in 1..Len(df) |->
                  <<df[i].timestamp, df[i].t_sec, df[i].briq_idx>>
                  \o (IF hasId THEN <<Cell(df[i].BriquetteID)>> ELSE <<>>)
                  \o (IF hasNote THEN <<Cell(df[i].Note)>> ELSE <<>>)]]

-----------------------------------------------------------------------------
(* One pass of fresh_app.py, top to bottom *)

NumCols == <<"Power">>

Shown == <<"table", "dl_annots", "dl_data">>

\* eng: for a pass that saved, whether it had an engine (ENG is not None).
NoOut == [status |-> "done", saved |-> FALSE, eng |-> FALSE, idx |-> None,
          briq_id |-> None, effects |-> <<>>, annots_csv |-> None,
          data_csv |-> None]

\* What a pass leaves when it changes nothing in the session.
Keep(sess, df) ==
    [id_map |-> sess.id_map, id_seq |-> sess.id_seq, annots |-> sess.annots,
     masks |-> sess.masks, resolved |-> sess.resolved, df_raw |-> df,
     out |-> NoOut]

\* Lines 153-166: the annotation table and the two downloads.
Tables(status, log, df, hasId, hasNote, before) ==
    [status EXCEPT !.effects = before \o Shown,
                   !.annots_csv = Some(AnnotsCsv(log)),
                   !.data_csv = Some(DataCsv(df, hasId, hasNote))]

\* Lines 129-150, the form submitted: append to the log, bulk-assign the
\* identifier and the note, send to the sink, report success.
Submit(kept, df0, idx, reg, new, snk, note, eng, made) ==
    IF snk.raised
    THEN [kept EXCEPT
            !.annots = AppendAnnot(@, new),
            !.masks = Append(@, Mask(df0, idx)),
            !.df_raw = BulkSet(df0, idx, reg.briq_id, note),
            !.out = [@ EXCEPT
                !.status = "Exception", !.saved = TRUE, !.eng = eng,
                !.effects = made \o <<"form", "append", "bulk">>
                            \o snk.effects \o <<"exception">>]]
    ELSE [kept EXCEPT
            !.annots = AppendAnnot(@, new),
            !.masks = Append(@, Mask(df0, idx)),
            !.df_raw = BulkSet(df0, idx, reg.briq_id, note),
            !.out = Tables([@ EXCEPT !.saved = TRUE, !.eng = eng],
                           AppendAnnot(kept.annots, new),
                           BulkSet(df0, idx, reg.briq_id, note),
                           TRUE, note # <<>>,
                           made \o <<"form", "append", "bulk">>
                           \o snk.effects \o <<"success">>)]

\* Lines 123-150 for the segment idx and the result reg of lines 119-122:
\* show the form and handle its submission.
Annotate(sess, df0, idx, reg, pt, sig, save, note, eng, ok) ==
    LET made == IF reg.created THEN <<"next_briq_id">> ELSE <<>> IN
    IF ~save
    THEN [Keep(sess, df0) EXCEPT
            !.id_map = reg.id_map, !.id_seq = reg.id_seq,
            !.resolved = @ \cup {idx},
            !.out = Tables([NoOut EXCEPT !.idx = Some(idx),
                                         !.briq_id = Some(reg.briq_id)],
                           sess.annots, df0, FALSE, FALSE,
                           made \o <<"form">>)]
    ELSE Submit([Keep(sess, df0) EXCEPT
                    !.id_map = reg.id_map, !.id_seq = reg.id_seq,
                    !.resolved = @ \cup {idx},
                    !.out = [NoOut EXCEPT !.idx = Some(idx),
                                          !.briq_id = Some(reg.briq_id)]],
                df0, idx, reg,
                [BriquetteID |-> reg.briq_id, briq_idx |-> idx,
                 Signal |-> sig, t_sec |-> pt.x, Value |-> pt.y,
                 Note |-> note],
                Sink(eng, ok), note, eng, made)

\* Lines 111-150: the click handler, r the result of line 117.
OnClick(sess, df0, r, pt, sig, save, note, eng, ok, day) ==
    IF r = None
    THEN \* line 117 raised: the pass ends there
         [Keep(sess, df0) EXCEPT
            !.out = [NoOut EXCEPT !.status = "IndexError",
                                  !.effects = <<"exception">>]]
    ELSE Annotate(sess, df0, r[1],
                  GetOrCreate(sess.id_map, sess.id_seq, r[1], day),
                  pt, sig, save, note, eng, ok)

\* Lines 56-166 on the frame df0 of lines 29-53.
Script(sess, df0, rng, cols, clk, save, note, eng, ok, day) ==
    IF cols = <<>>
    THEN \* lines 68-70: st.warning, st.stop
         [Keep(sess, df0) EXCEPT
            !.out = [NoOut EXCEPT !.status = "stopped",
                                  !.effects = <<"warning">>]]
    ELSE IF clk = <<>>
    THEN \* no click: tables and downloads only
         [Keep(sess, df0) EXCEPT
            !.out = Tables(NoOut, sess.annots, df0, FALSE, FALSE, <<>>)]
    ELSE OnClick(sess, df0, ResolveClick(df0, rng, clk[1].x), clk[1],
                 cols[clk[1].curveNumber + 1], save, note, eng, ok, day)

\* sess: [id_map, id_seq, annots, masks, resolved]. clk: the plotly_events
\* value; save, note: the form's button and text; eng: ENG is not None
\* ("mysql" in st.secrets, read on every pass); ok: whether to_sql returns;
\* day: time.strftime("%Y%m%d").
Pass(file, on, g, rng, cols, clk, save, note, eng, ok, day, sess) ==
    Script(sess, Segmenter(file, on, g), rng, cols, clk, save, note, eng, ok,
           day)

-----------------------------------------------------------------------------
(* Inputs *)

RowStamps == {<<"0", ":", "0">>, <<"0", ":", "2">>, <<"a">>}
Days == {<<"2", "0", "2", "5", "0", "7", "0", "1">>}
Notes == {<<>>, <<"d", "e", "f", "e", "c", "t">>}

RECURSIVE Seqs(_, _)
Seqs(S, n) == IF n = 0 THEN {<<>>}
              ELSE LET shorter == Seqs(S, n - 1) IN
                   shorter \cup {Append(q, e) :
                                   q \in {t \in shorter : Len(t) = n - 1},
                                   e \in S}

\* Files the dashboard can show: at least one row, at least one timestamp
\* that parses (t_min and t_max of line 56 need one).
Files == {f \in Seqs(RowStamps, MaxRows) :
            f # <<>> /\ \E i \in 1..Len(f) : to_sec(f[i]) # None}

FullRange(file) == LET df == LoadRows(file) IN <<TMin(df), TMax(df)>>

\* Slider values: t_min + k * 1.0, lo <= hi, inside [t_min, t_max].
Ranges(file) ==
    LET full == FullRange(file) IN
    {rg \in (full[1]..full[2]) \X (full[1]..full[2]) : rg[1] <= rg[2]}

Session == [id_map |-> id_map, id_seq |-> id_seq, annots |-> annots,
            masks |-> masks, resolved |-> resolved]

\* The script pass run with the primed widget values.
Run(save, note, eng, ok, day) ==
    \E p \in {Pass(up_file', group_on', rows_per_briq', t_rng', y_cols',
                   clicks', save, note, eng, ok, day, Session)} :
       /\ id_map' = p.id_map
       /\ id_seq' = p.id_seq
       /\ annots' = p.annots
       /\ masks' = p.masks
       /\ resolved' = p.resolved
       /\ df_raw' = p.df_raw
       /\ out' = p.out

ToSecIdle == ts = <<>> /\ sec = None /\ sec2 = None /\ tpc = "idle"

\* number_input("Rows per briquette", 1, len(df_raw), 20): the default.
DefaultRows == 20

\* The first pass after the first upload: widgets at their defaults (rows
\* per briquette within its maximum len(df_raw)), empty session state
\* (lines 73-80).
Start(files) ==
    /\ ToSecIdle
    /\ up_file \in files
    /\ group_on = TRUE
    /\ rows_per_briq = Min(DefaultRows, Len(up_file))
    /\ t_rng = FullRange(up_file)
    /\ y_cols = <<"Power">>
    /\ clicks = <<>>
    /\ id_map = <<>>
    /\ id_seq = 0
    /\ annots = <<>>
    /\ masks = <<>>
    /\ resolved = {}
    /\ df_raw = Segmenter(up_file, group_on, rows_per_briq)
    /\ out = [NoOut EXCEPT
                !.effects = Shown,
                !.annots_csv = Some(AnnotsCsv(<<>>)),
                !.data_csv = Some(DataCsv(df_raw, FALSE, FALSE))]

-----------------------------------------------------------------------------
(* User interactions: each changes one widget and reruns the script *)

\* A chart with at least one point is on screen (lines 95-99 run before the
\* click is handled, so also in a pass that line 117 ended).
ChartShown == y_cols # <<>> /\ View(df_raw, t_rng) # <<>>

\* The click the chart component reports on a rerun that leaves the figure
\* as it was: the component may keep its last value or report none.
Kept == {clicks, <<>>}

\* Without a click no identifier is made and the date is not read.
NoDay == <<>>

\* A new file: the slider starts over at the full range, the rows-per-
\* briquette input stays within its new maximum len(df_raw).
Upload(f) ==
    /\ f # up_file
    /\ up_file' = f
    /\ rows_per_briq' = Min(rows_per_briq, Len(f))
    /\ t_rng' = FullRange(f)
    /\ clicks' = <<>>
    /\ UNCHANGED <<group_on, y_cols>>
    /\ Run(FALSE, <<>>, FALSE, TRUE, NoDay)
    /\ UNCHANGED toSecVars

\* The grouping checkbox or the rows-per-briquette input, one of the two per
\* interaction; the figure is the same, so a click may still be reported.
SetGrouping(on, g, day) ==
    /\ <<on, g>> # <<group_on, rows_per_briq>>
    /\ on = group_on \/ g = rows_per_briq
    /\ group_on' = on
    /\ rows_per_briq' = g
    /\ clicks' \in Kept
    /\ UNCHANGED <<up_file, t_rng, y_cols>>
    /\ Run(FALSE, <<>>, FALSE, TRUE, day)
    /\ UNCHANGED toSecVars

\* The elapsed-time slider: a new figure.
SetRange(rg) ==
    /\ rg # t_rng
    /\ t_rng' = rg
    /\ clicks' = <<>>
    /\ UNCHANGED <<up_file, group_on, rows_per_briq, y_cols>>
    /\ Run(FALSE, <<>>, FALSE, TRUE, NoDay)
    /\ UNCHANGED toSecVars

\* The signals multiselect: a new figure, or none when nothing is selected.
SelectSignals(cols) ==
    /\ cols # y_cols
    /\ y_cols' = cols
    /\ clicks' = <<>>
    /\ UNCHANGED <<up_file, group_on, rows_per_briq, t_rng>>
    /\ Run(FALSE, <<>>, FALSE, TRUE, NoDay)
    /\ UNCHANGED toSecVars

\* A click on trace c of the chart at x.
Click(x, c, day) ==
    /\ ChartShown
    /\ c < Len(y_cols)
    /\ clicks' = <<[x |-> x, y |-> 5, curveNumber |-> c]>>
    /\ UNCHANGED <<up_file, group_on, rows_per_briq, t_rng, y_cols>>
    /\ Run(FALSE, <<>>, FALSE, TRUE, day)
    /\ UNCHANGED toSecVars

\* The form's Save button: the form is on screen, the click still reported.
Save(note, eng, ok, day) ==
    /\ out.status = "done"
    /\ out.idx # None
    /\ clicks # <<>>
    /\ Len(annots) < MaxAnnots
    /\ UNCHANGED <<up_file, group_on, rows_per_briq, t_rng, y_cols, clicks>>
    /\ Run(TRUE, note, eng, ok, day)
    /\ UNCHANGED toSecVars

\* Session runs: two sample files (two rows, one row), clicks on the plotted
\* points.
SessionFiles == {<<<<"0", ":", "0">>, <<"0", ":", "1">>>>,
                 <<<<"0", ":", "1">>>>}
SessionX == {0, 1}

Next ==
    \/ \E f \in SessionFiles : Upload(f)
    \/ \E on \in BOOLEAN, g \in 1..Len(up_file), day \in Days :
          SetGrouping(on, g, day)
    \/ \E rg \in Ranges(up_file) : SetRange(rg)
    \/ \E cols \in {<<>>, NumCols} : SelectSignals(cols)
    \/ \E x \in SessionX, day \in Days : Click(x, 0, day)
    \/ \E note \in Notes, eng \in BOOLEAN, day \in Days :
          \E ok \in IF eng THEN BOOLEAN ELSE {TRUE} :
          Save(note, eng, ok, day)

Init == Start(SessionFiles)

Spec == Init /\ [][Next]_vars

\* Sessions on one file: grouping, filter, clicks and saves, no upload.
NextOneFile ==
    \/ \E on \in BOOLEAN, g \in 1..Len(up_file), day \in Days :
          SetGrouping(on, g, day)
    \/ \E rg \in Ranges(up_file) : SetRange(rg)
    \/ \E x \in SessionX, day \in Days : Click(x, 0, day)
    \/ \E note \in Notes, eng \in BOOLEAN, day \in Days :
          \E ok \in IF eng THEN BOOLEAN ELSE {TRUE} :
          Save(note, eng, ok, day)

InitOneFile == Start({<<<<"0", ":", "0">>, <<"0", ":", "1">>>>})

SpecOneFile == InitOneFile /\ [][NextOneFile]_vars

\* Frames only: every file and grouping, no clicks.
NextSeg ==
    \/ \E f \in Files : Upload(f)
    \/ \E on \in BOOLEAN, g \in 1..Len(up_file) : SetGrouping(on, g, NoDay)

InitSeg == Start(Files)

SpecSeg == InitSeg /\ [][NextSeg]_vars

\* View runs: every file, grouping, filter and click, no saves.
NextView ==
    \/ \E on \in BOOLEAN, g \in 1..Len(up_file), day \in Days :
          SetGrouping(on, g, day)
    \/ \E rg \in Ranges(up_file) : SetRange(rg)
    \/ \E x \in 0..MaxX, day \in Days : Click(x, 0, day)

InitView == Start(Files)

SpecView == InitView /\ [][NextView]_vars

-----------------------------------------------------------------------------
(* The two to_sec functions applied to every short string *)

AppIdle ==
    /\ up_file = <<>> /\ group_on = TRUE /\ rows_per_briq = 1
    /\ t_rng = <<0, 0>> /\ y_cols = <<>> /\ clicks = <<>>
    /\ id_map = <<>> /\ id_seq = 0 /\ annots = <<>> /\ masks = <<>>
    /\ resolved = {} /\ df_raw = <<>> /\ out = NoOut

InitToSec ==
    /\ ts \in Strings(MaxLen)
    /\ sec = None /\ sec2 = None /\ tpc = "in"
    /\ AppIdle

Parse ==
    /\ tpc = "in"
    /\ sec' = to_sec(ts)
    /\ sec2' = to_sec_app2(ts)
    /\ tpc' = "out"
    /\ UNCHANGED ts
    /\ UNCHANGED appVars

NextToSec == Parse

SpecToSec == InitToSec /\ [][NextToSec]_vars

-----------------------------------------------------------------------------
(* Claims *)

Last(q) == q[Len(q)]
IsPrefix(p, q) == Len(p) <= Len(q) /\ SubSeq(q, 1, Len(p)) = p
Pos(q, e) == CHOOSE i \in 1..Len(q) : q[i] = e
Has(q, e) == \E i \in 1..Len(q) : q[i] = e

\* The segment of the visible row nearest to x, the first one on a tie.
NearestSegment(df, rng, x) ==
    LET vis == {i \in 1..Len(df) : InRange(df[i], rng)}
        d(i) == Abs(df[i].t_sec[1] - x)
        best == CHOOSE i \in vis :
                    \A j \in vis : d(i) < d(j) \/ (d(i) = d(j) /\ i <= j)
    IN df[best].briq_idx

\* C1: whatever the range filter and the clicked x, a pass with a click
\* resolves, and resolves to the segment of the visible row nearest to x
\* (the first such row on a tie).
NearestPointResolution ==
    clicks # <<>> =>
        /\ out.status = "done"
        /\ out.idx = Some(NearestSegment(df_raw, t_rng, clicks[1].x))

\* C2: once a segment index has an identifier, the entry never changes, and
\* a pass whose click resolves to that index returns that identifier and
\* leaves the registry and the counter as they were.
GetOrCreateIdempotent ==
    [][\A k \in DOMAIN id_map :
          /\ k \in DOMAIN id_map' /\ id_map'[k] = id_map[k]
          /\ out'.idx = Some(k) =>
                /\ out'.briq_id = Some(id_map[k])
                /\ id_map' = id_map
                /\ id_seq' = id_seq]_vars

\* C2 witness: a click resolved to a segment that already had its
\* identifier, with another segment registered and an annotation saved.
GetOrCreateIdempotentWitness ==
    /\ out.idx # None
    /\ ~Has(out.effects, "next_briq_id")
    /\ Cardinality(DOMAIN id_map) >= 2
    /\ annots # <<>>

\* C3: the counter never decreases, a pass that adds a registry entry adds
\* exactly one and raises the counter by exactly 1 (and the counter moves
\* only then), and no two segment indices hold the same identifier.
IdentifiersNeverReused ==
    [][/\ id_seq' >= id_seq
       /\ id_map' # id_map <=> id_seq' = id_seq + 1
       /\ id_seq' # id_seq => id_seq' = id_seq + 1
       /\ Cardinality(DOMAIN id_map' \ DOMAIN id_map) <= 1
       /\ \A j, k \in DOMAIN id_map' :
             id_map'[j] = id_map'[k] => j = k]_vars

\* C3 witness: two segments hold identifiers and one of them has no row in
\* the filtered view.
IdentifiersNeverReusedWitness ==
    /\ Cardinality(DOMAIN id_map) >= 2
    /\ \E k \in DOMAIN id_map :
          \A i \in 1..Len(df_raw) :
              InRange(df_raw[i], t_rng) => df_raw[i].briq_idx # k

\* C4: the log before a step is a prefix of the log after it; it grows by
\* one record at a time, and only in a pass that saved, run while the form
\* of an earlier click was on screen.
LogAppendOnly ==
    [][/\ IsPrefix(annots, annots')
       /\ annots' # annots =>
             /\ Len(annots') = Len(annots) + 1
             /\ out'.saved
             /\ clicks # <<>> /\ clicks' = clicks
             /\ Has(out.effects, "form")]_vars

\* C4 witness: a second record has been appended after a first one.
LogAppendOnlyWitness == Len(annots) >= 2 /\ out.saved

\* C5: in a pass that saved, the record is in the log before any send; the
\* send is attempted exactly when there is an engine, and ends in a toast or
\* in a reported error; either way the pass runs to its end, the record is
\* the last of the log and of the annotations download.
SinkFailureIsolation ==
    out.saved =>
        LET e == out.effects IN
        /\ Has(e, "append")
        /\ out.eng <=> Has(e, "to_sql")
        /\ Has(e, "to_sql") =>
              /\ Pos(e, "append") < Pos(e, "to_sql")
              /\ e[Pos(e, "to_sql") + 1] \in {"toast", "error"}
        /\ ~Has(e, "exception")
        /\ out.status = "done"
        /\ Has(e, "success") /\ Has(e, "dl_annots") /\ Has(e, "dl_data")
        /\ Pos(e, "append") < Pos(e, "success")
        /\ Pos(e, "success") < Pos(e, "dl_annots")
        /\ Has(e, "error") => Pos(e, "error") < Pos(e, "success")
        /\ annots # <<>>
        /\ Last(annots).BriquetteID = out.briq_id[1]
        /\ Last(annots).t_sec = clicks[1].x
        /\ out.annots_csv = Some(AnnotsCsv(annots))
        /\ Last(out.annots_csv[1].lines)[1] = out.briq_id[1]

\* C5 witness: a pass that saved and whose send failed.
SinkFailureIsolationWitness ==
    out.saved /\ out.eng /\ Has(out.effects, "error")

\* The cell of line i of a table under the column called name; empty when
\* the table has no such column.
CsvCell(csv, i, name) ==
    IF Has(csv.header, name) THEN csv.lines[i][Pos(csv.header, name)]
    ELSE <<>>

\* The note of the latest annotation of segment k with a non-empty note.
LatestNote(log, k) ==
    LET with == {i \in 1..Len(log) :
                    log[i].briq_idx = k /\ log[i].Note # <<>>}
    IN IF with = {} THEN <<>>
       ELSE log[CHOOSE i \in with : \A j \in with : j <= i].Note

\* C6: in a session on one file, every full data download carries, on each
\* row of an annotated segment, the segment's identifier and the latest
\* non-empty note; rows of segments never annotated carry neither.
ExportCarriesAnnotations ==
    out.data_csv # None =>
        \A i \in 1..Len(df_raw) :
            LET k == df_raw[i].briq_idx
                csv == out.data_csv[1]
            IN IF \E a \in 1..Len(annots) : annots[a].briq_idx = k
               THEN /\ CsvCell(csv, i, "BriquetteID") = id_map[k]
                    /\ CsvCell(csv, i, "Note") = LatestNote(annots, k)
               ELSE /\ CsvCell(csv, i, "BriquetteID") = <<>>
                    /\ CsvCell(csv, i, "Note") = <<>>

\* C7 as stated: a segment index has an identifier only if the log holds an
\* annotation of that segment index, and the counter counts those segments.
IdOnlyAfterSave ==
    /\ \A k \in DOMAIN id_map :
          \E a \in 1..Len(annots) : annots[a].briq_idx = k
    /\ id_seq = Cardinality({annots[a].briq_idx : a \in 1..Len(annots)})

\* C7 amended: a segment index has an identifier only if a click has
\* resolved to it, saved or not; the counter counts the registry's entries;
\* every annotation carries the registry's identifier of its segment index.
IdOnFirstClick ==
    /\ DOMAIN id_map = resolved
    /\ id_seq = Cardinality(DOMAIN id_map)
    /\ \A a \in 1..Len(annots) :
          /\ annots[a].briq_idx \in DOMAIN id_map
          /\ id_map[annots[a].briq_idx] = annots[a].BriquetteID

\* C7 witness: an identifier exists for a segment that has no annotation,
\* while another segment has one.
IdOnFirstClickWitness ==
    /\ annots # <<>>
    /\ \E k \in DOMAIN id_map :
          \A a \in 1..Len(annots) : annots[a].briq_idx # k

\* The result the timestamp contract asks for.
Seconds(s) ==
    LET raw == Split(s) IN
    IF \E i \in 1..Len(raw) : FloatRaises(raw[i]) THEN None
    ELSE IF Len(raw) = 2 THEN Some(Float(raw[1]) * 60 + Float(raw[2]))
    ELSE IF Len(raw) = 3
         THEN Some(Float(raw[1]) * 3600 + Float(raw[2]) * 60 + Float(raw[3]))
         ELSE None

\* C8: both to_sec functions give minutes*60 + seconds for two numeric
\* parts, hours*3600 + minutes*60 + seconds for three, and None otherwise.
ToSecContract ==
    tpc = "out" => sec = Seconds(ts) /\ sec2 = Seconds(ts)

\* C9: the frame holds the file's rows in ascending order of elapsed
\* seconds, undefined ones last; with grouping on, the row at position p has
\* index p div g, so indices do not decrease, every segment but the last has
\* exactly g rows, and g >= row count gives 0 everywhere; with grouping off
\* every row has index 0.
SegmentationByPosition ==
    LET n == Len(df_raw)
        g == rows_per_briq
        rowsOf(k) == {i \in 1..n : df_raw[i].briq_idx = k}
        top == IF n = 0 THEN 0 ELSE df_raw[n].briq_idx
    IN
        /\ n = Len(up_file)
        /\ {df_raw[i].src : i \in 1..n} = 1..n
        /\ \A i \in 1..n :
              /\ df_raw[i].timestamp = up_file[df_raw[i].src]
              /\ df_raw[i].t_sec = Seconds(df_raw[i].timestamp)
        /\ \A i, j \in 1..n :
              i < j => \/ df_raw[j].t_sec = None
                       \/ /\ df_raw[i].t_sec # None
                          /\ df_raw[i].t_sec[1] <= df_raw[j].t_sec[1]
        /\ group_on =>
              /\ \A i \in 1..n : df_raw[i].briq_idx = (i - 1) \div g
              /\ \A i, j \in 1..n :
                    i < j => df_raw[i].briq_idx <= df_raw[j].briq_idx
              /\ \A k \in 0..(top - 1) : Cardinality(rowsOf(k)) = g
              /\ Cardinality(rowsOf(top)) \in 1..g
              /\ g >= n => \A i \in 1..n : df_raw[i].briq_idx = 0
        /\ ~group_on => \A i \in 1..n : df_raw[i].briq_idx = 0

\* C9 witness: an unsorted file with a row that does not parse, grouped by
\* two, with a short last segment.
SegmentationByPositionWitness ==
    /\ group_on /\ rows_per_briq = 2 /\ Len(df_raw) = 3
    /\ df_raw[1].src # 1
    /\ df_raw[3].t_sec = None
    /\ df_raw[3].briq_idx = 1

\* C10: in a session on one file, annotations that carry the same
\* identifier were attached to the same rows.
IdentifierNamesOneSegment ==
    \A a, b \in 1..Len(annots) :
        annots[a].BriquetteID = annots[b].BriquetteID => masks[a] = masks[b]

=============================================================================
